---- MODULE Spec2Model ----
(***************************************************************************)
(* Hybrid retrieval and rank fusion of knowledge/scripts/rag_query.py:     *)
(* hybrid_search (one category: vector hits and full-text hits merged by   *)
(* Reciprocal Rank Fusion), rerank, log_query and query (the fan-out over  *)
(* the categories, the global sort and the truncation).                    *)
(*                                                                         *)
(* Numbers.  hybrid_weight is a multiple of 1/WDen: the integer w stands   *)
(* for the weight w/WDen.  A score is the exact rational the source's      *)
(* expression denotes, in units of 1/WDen, kept as <<numerator,            *)
(* denominator>> and compared by cross-multiplication; floating-point      *)
(* rounding is not modelled.  Ranks are 0-based as in enumerate().         *)
(*                                                                         *)
(* Dictionaries.  A hit is a record with every key the source may set; a   *)
(* key the dict does not hold has the value Absent (<<>> for the score).   *)
(* results_map, a dict keyed by content, is the sequence of its values in  *)
(* insertion order, which is the order Python iterates a dict in.          *)
(*                                                                         *)
(* Specifications.  Spec: one call of query() with valid arguments on      *)
(* every small corpus.  BadRequestSpec: one call with one bad argument.    *)
(* RerankSpec: query() with reranking on corpora of up to four hits, and   *)
(* rerank() called on its own.  ThreadSpec: MaxThreads threads, each       *)
(* making one call of query(), interleaved at every access to the model    *)
(* slots, the model lock and the log; a constructor may raise.  LogSpec:   *)
(* one call of query(), with limits up to MaxLimit + 2, whose log_query    *)
(* may fail.  FairThreadSpec: ThreadSpec with weak fairness of the steps   *)
(* of each thread inside a getter.                                         *)
(***************************************************************************)
EXTENDS Integers, Sequences, FiniteSets, TLC

\* ------------------------------------------------------------------ bounds
MaxHits == 2     \* rows in one adapter's answer, and in the whole corpus
MaxLimit == 2    \* largest limit a request asks for
MaxThreads == 2  \* threads that call query() at the same time
MaxCandidates == 3  \* longest list a direct call of rerank() is given
WDen == 10       \* hybrid_weight is w/WDen, w \in 0..WDen

\* --------------------------------------------------------- source constants
RRF_FALLBACK_RANK == 1000
RRF_K == 60
Absent == -1

Contents == {"a", "b"}
Categories == {"usage_patterns", "gotchas"}
Weights == {0, 7, WDen}
DefaultWeight == 7
Scopes == {"all", "gotchas"}
Limits == 1..MaxLimit
RerankScores == {1, 2}

Min(x, y) == IF x <= y THEN x ELSE y
Max(x, y) == IF x >= y THEN x ELSE y

\* dict.get(key, default) on a key whose value is v
Get(v, default) == IF v = Absent THEN default ELSE v

\* seq[:n], Python's prefix slice (a negative n counts from the end)
Take(seq, n) ==
    IF n >= 0 THEN SubSeq(seq, 1, Min(n, Len(seq)))
    ELSE SubSeq(seq, 1, Max(0, Len(seq) + n))

\* list.sort / sorted: a stable sort; before[i][j] says the key of seq[i] sorts
\* strictly before the key of seq[j].  Elements with equal keys keep their order.
StableSort(seq, before) ==
    LET n == Len(seq)
        pos == [i \in 1..n |->
                   1 + Cardinality({j \in 1..n :
                          before[j][i] \/ (~before[i][j] /\ j < i)})]
    IN [p \in 1..n |-> seq[CHOOSE i \in 1..n : pos[i] = p]]

\* exact rationals <<numerator, denominator>>, denominator > 0
RatLess(x, y) == x[1] * y[2] < y[1] * x[2]
RatEq(x, y) == x[1] * y[2] = y[1] * x[2]
RatAdd(x, y) == <<x[1] * y[2] + y[1] * x[2], x[2] * y[2]>>

\* ------------------------------------------------------------ hybrid_search
\* the dict a search's to_list() yields for one row, before any key is added
Hit(row) ==
    [content |-> row.content, distance |-> row.distance,
     vector_rank |-> Absent, fts_rank |-> Absent, hybrid_score |-> <<>>,
     rerank_score |-> Absent, category |-> "unknown"]

\* position of the entry of results_map keyed by content, 0 when there is none
KeyIndex(results_map, content) ==
    IF \E p \in DOMAIN results_map : results_map[p].content = content
    THEN CHOOSE p \in DOMAIN results_map : results_map[p].content = content
    ELSE 0

\* VectorLoop with the duplicate's rank overwritten instead of min()
RECURSIVE VectorLoopKeepLast(_, _, _)
VectorLoopKeepLast(results_map, vector_hits, j) ==
    IF j > Len(vector_hits) THEN results_map
    ELSE LET i == j - 1
             hit == Hit(vector_hits[j])
             at == KeyIndex(results_map, hit.content)
         IN IF at = 0
            THEN VectorLoopKeepLast(
                     Append(results_map, [hit EXCEPT !.vector_rank = i]),
                     vector_hits, j + 1)
            ELSE VectorLoopKeepLast(
                     [results_map EXCEPT ![at].vector_rank = i],
                     vector_hits, j + 1)

\* the loop over enumerate(vector_hits), from its j-th element on
RECURSIVE VectorLoop(_, _, _)
VectorLoop(results_map, vector_hits, j) ==
    IF j > Len(vector_hits) THEN results_map
    ELSE LET i == j - 1
             hit == Hit(vector_hits[j])
             at == KeyIndex(results_map, hit.content)
         IN IF at = 0
            THEN VectorLoop(Append(results_map, [hit EXCEPT !.vector_rank = i]),
                            vector_hits, j + 1)
            ELSE VectorLoop([results_map EXCEPT
                                ![at].vector_rank = Min(i, Get(@, i))],
                            vector_hits, j + 1)

\* the loop over enumerate(fts_hits), from its j-th element on
RECURSIVE FtsLoop(_, _, _)
FtsLoop(results_map, fts_hits, j) ==
    IF j > Len(fts_hits) THEN results_map
    ELSE LET i == j - 1
             hit == Hit(fts_hits[j])
             at == KeyIndex(results_map, hit.content)
         IN IF at = 0
            THEN FtsLoop(Append(results_map, [hit EXCEPT !.fts_rank = i]),
                         fts_hits, j + 1)
            ELSE FtsLoop([results_map EXCEPT
                             ![at].fts_rank = Min(i, Get(@, i))],
                         fts_hits, j + 1)

\* table.search(embedding).limit(n).to_list(): the n closest rows
VectorSearch(table, n) == Take(table.vector_hits, n)

\* table.search(query_text, query_type="fts").limit(n).to_list()
FtsSearch(table, n) == Take(table.fts_hits, n)

\* A block of code ends as an outcome: raised says an exception left it, value
\* is what it computed (or, when it raised, what it had before).

\* a try block without its except: the exception goes on
Unhandled(outcome) == outcome

\* except Exception: pass
ExceptPass(outcome) == [outcome EXCEPT !.raised = FALSE]

\* the body of the first try: the vector search and its loop
VectorBlock(table, limit, results_map) ==
    IF table.vector_raises
    THEN [raised |-> TRUE, value |-> results_map]
    ELSE [raised |-> FALSE,
          value |-> VectorLoop(results_map, VectorSearch(table, limit * 2), 1)]

\* the body of the second try: the full-text search and its loop
FtsBlock(table, limit, results_map) ==
    IF table.fts_raises
    THEN [raised |-> TRUE, value |-> results_map]
    ELSE [raised |-> FALSE,
          value |-> FtsLoop(results_map, FtsSearch(table, limit * 2), 1)]

\* results_map after the two try blocks
ResultsMap(table, limit) ==
    LET after_vector == ExceptPass(VectorBlock(table, limit, <<>>))
    IN IF after_vector.raised THEN after_vector
       ELSE ExceptPass(FtsBlock(table, limit, after_vector.value))

\* RRFScore with 1-based ranks
RRFScoreOneBased(hybrid_weight, vector_rank, fts_rank) ==
    RatAdd(<<hybrid_weight, RRF_K + vector_rank + 1>>,
           <<WDen - hybrid_weight, RRF_K + fts_rank + 1>>)

\* RRFScore with the two weights exchanged
RRFScoreSwapped(hybrid_weight, vector_rank, fts_rank) ==
    RatAdd(<<WDen - hybrid_weight, RRF_K + vector_rank>>,
           <<hybrid_weight, RRF_K + fts_rank>>)

\* vector_score + fts_score, in units of 1/WDen
RRFScore(hybrid_weight, vector_rank, fts_rank) ==
    LET vector_score == <<hybrid_weight, RRF_K + vector_rank>>
        fts_score == <<WDen - hybrid_weight, RRF_K + fts_rank>>
    IN RatAdd(vector_score, fts_score)

\* Scored with a missing rank taken as the best rank
ScoredZeroFallback(results_map, hybrid_weight) ==
    [p \in DOMAIN results_map |->
        [results_map[p] EXCEPT !.hybrid_score =
            RRFScore(hybrid_weight, Get(results_map[p].vector_rank, 0),
                     Get(results_map[p].fts_rank, 0))]]

\* the scoring loop over results_map.items()
Scored(results_map, hybrid_weight) ==
    [p \in DOMAIN results_map |->
        [results_map[p] EXCEPT !.hybrid_score =
            RRFScore(hybrid_weight,
                     Get(results_map[p].vector_rank, RRF_FALLBACK_RANK),
                     Get(results_map[p].fts_rank, RRF_FALLBACK_RANK))]]

\* key of results.sort(key=lambda x: x['_hybrid_score'], reverse=True)
HigherHybrid(x, y) == RatLess(y.hybrid_score, x.hybrid_score)

\* SortByHybrid without reverse=True
SortByHybridAscending(results) ==
    StableSort(results,
               [i \in DOMAIN results |-> [j \in DOMAIN results |->
                   RatLess(results[i].hybrid_score, results[j].hybrid_score)]])

SortByHybrid(results) ==
    StableSort(results,
               [i \in DOMAIN results |-> [j \in DOMAIN results |->
                   HigherHybrid(results[i], results[j])]])

hybrid_search(table, limit, hybrid_weight) ==
    LET results_map == ResultsMap(table, limit)
    IN IF results_map.raised THEN [raised |-> TRUE, value |-> <<>>]
       ELSE [raised |-> FALSE,
             value |-> Take(SortByHybrid(Scored(results_map.value,
                                                hybrid_weight)), limit)]

\* ------------------------------------------------------------------- rerank
\* HigherRerank without reverse=True
LowerRerank(x, y) == x.rerank_score < y.rerank_score

\* key of sorted(results, key=lambda x: x['_rerank_score'], reverse=True)
HigherRerank(x, y) == x.rerank_score > y.rerank_score

\* rerank without the [:top_k]
rerankUntruncated(results, top_k, relevance) ==
    IF results = <<>> THEN results
    ELSE LET scored == [p \in DOMAIN results |->
                           [results[p] EXCEPT
                               !.rerank_score = relevance[results[p].content]]]
         IN StableSort(scored,
                       [i \in DOMAIN scored |-> [j \in DOMAIN scored |->
                           HigherRerank(scored[i], scored[j])]])

\* relevance[c] is reranker.predict's score of the pair (query_text, c)
rerank(results, top_k, relevance) ==
    IF results = <<>> THEN results
    ELSE LET scored == [p \in DOMAIN results |->
                           [results[p] EXCEPT
                               !.rerank_score = relevance[results[p].content]]]
         IN Take(StableSort(scored,
                            [i \in DOMAIN scored |-> [j \in DOMAIN scored |->
                                HigherRerank(scored[i], scored[j])]]),
                 top_k)

\* ---------------------------------------------------------------- log_query
\* the entry log_query builds (the timestamp left out)
LogEntry(query_text, results, source) ==
    LET top == Take(results, 3)
    IN [query |-> query_text, source |-> source,
        result_count |-> Len(results),
        top_categories |-> [p \in DOMAIN top |-> top[p].category],
        top_distances |-> [p \in DOMAIN top |-> Get(top[p].distance, 0)]]

\* what may go wrong in the body of log_query's try: nothing, the directory
\* cannot be made, the file cannot be opened or written, json.dumps raises
LogFailures == {"none", "mkdir", "write", "dumps"}

\* WriteLine with the file opened in mode "w"
WriteLineTruncating(log, entry) == <<entry>>

\* open(LOG_PATH, "a") and f.write: the line goes after the lines there
WriteLine(log, entry) == Append(log, entry)

\* the body of the try of log_query; the directory is made on the first call
LogBlock(log, log_dir_created, entry, failure) ==
    IF ~log_dir_created /\ failure = "mkdir"
    THEN [raised |-> TRUE, log |-> log, log_dir_created |-> FALSE]
    ELSE IF failure \in {"write", "dumps"}
    THEN [raised |-> TRUE, log |-> log, log_dir_created |-> TRUE]
    ELSE [raised |-> FALSE, log |-> WriteLine(log, entry),
          log_dir_created |-> TRUE]

\* except Exception: pass  # Silent fail
LogExcept(outcome) == [outcome EXCEPT !.raised = FALSE]

log_query(log, log_dir_created, entry, failure) ==
    LogExcept(LogBlock(log, log_dir_created, entry, failure))

\* -------------------------------------------------------------------- query
\* FetchLimit without the wider fetch for the reranker
FetchLimitNarrow(request) == request.limit

\* fetch_limit = limit * 3 if use_rerank else limit
FetchLimit(request) ==
    IF request.use_rerank THEN request.limit * 3 ELSE request.limit

\* the loop without the assignment of _category
Untagged(hits, table_name) == hits

\* hit['_category'] = table_name, for every hit of one table
Tagged(hits, table_name) ==
    [p \in DOMAIN hits |-> [hits[p] EXCEPT !.category = table_name]]

\* LoopBody that fuses also when use_hybrid is false
LoopBodyAlwaysHybrid(table, table_name, request) ==
    IF table.open_raises THEN [raised |-> TRUE, value |-> <<>>]
    ELSE LET hits == hybrid_search(table, FetchLimit(request),
                                   request.hybrid_weight)
         IN [raised |-> hits.raised, value |-> Tagged(hits.value, table_name)]

\* the body of the try in `for table_name in tables`: the hits it appends
LoopBody(table, table_name, request) ==
    IF table.open_raises THEN [raised |-> TRUE, value |-> <<>>]
    ELSE IF request.use_hybrid
    THEN LET hits == hybrid_search(table, FetchLimit(request),
                                   request.hybrid_weight)
         IN [raised |-> hits.raised, value |-> Tagged(hits.value, table_name)]
    ELSE IF table.vector_raises THEN [raised |-> TRUE, value |-> <<>>]
    ELSE LET rows == VectorSearch(table, FetchLimit(request))
         IN [raised |-> FALSE,
             value |-> Tagged([p \in DOMAIN rows |-> Hit(rows[p])], table_name)]

\* except Exception: continue
ExceptContinue(outcome) ==
    IF outcome.raised THEN [raised |-> FALSE, value |-> <<>>] ELSE outcome

\* what db.open_table raises on for a name the database has no table of
MissingTable ==
    [open_raises |-> TRUE, vector_raises |-> TRUE, fts_raises |-> TRUE,
     vector_hits |-> <<>>, fts_hits |-> <<>>]

\* db.open_table(table_name)
OpenTable(db, table_name) ==
    IF table_name \in DOMAIN db THEN db[table_name] ELSE MissingTable

\* one iteration of the loop over tables
TableHits(db, table_name, request) ==
    ExceptContinue(LoopBody(OpenTable(db, table_name), table_name, request))

\* the loop over tables from the j-th on: results, or the exception that left it
RECURSIVE Collect(_, _, _, _)
Collect(db, tables, request, j) ==
    IF j > Len(tables) THEN [raised |-> FALSE, value |-> <<>>]
    ELSE LET first == TableHits(db, tables[j], request)
             rest == Collect(db, tables, request, j + 1)
         IN IF first.raised THEN [raised |-> TRUE, value |-> <<>>]
            ELSE [raised |-> rest.raised, value |-> first.value \o rest.value]

\* keys of the two global sorts
HigherHybridOrZero(x, y) ==
    LET key(h) == IF h.hybrid_score = <<>> THEN <<0, 1>> ELSE h.hybrid_score
    IN RatLess(key(y), key(x))

\* x.get('_distance', float('inf')) ascending
CloserOrInf(x, y) ==
    /\ x.distance # Absent
    /\ (y.distance = Absent \/ x.distance < y.distance)

\* GlobalSort that sorts by the hybrid score in both modes
GlobalSortHybridOnly(results, request) ==
    StableSort(results,
               [i \in DOMAIN results |-> [j \in DOMAIN results |->
                   HigherHybridOrZero(results[i], results[j])]])

GlobalSort(results, request) ==
    IF request.use_hybrid
    THEN StableSort(results,
                    [i \in DOMAIN results |-> [j \in DOMAIN results |->
                        HigherHybridOrZero(results[i], results[j])]])
    ELSE StableSort(results,
                    [i \in DOMAIN results |-> [j \in DOMAIN results |->
                        CloserOrInf(results[i], results[j])]])

\* db.list_tables(): the category set of "all"
ListTables == <<"usage_patterns", "gotchas">>

TablesOf(request) ==
    IF request.category # "all" THEN <<request.category>> ELSE ListTables

\* results[:fetch_limit] after the global sort: the candidates of rerank
Candidates(collected, request) ==
    IF collected.raised THEN collected
    ELSE [raised |-> FALSE,
          value |-> Take(GlobalSort(collected.value, request),
                         FetchLimit(request))]

\* the rerank or the final slice: what query() returns (and logs)
Returned(candidates, request, relevance) ==
    IF candidates.raised THEN candidates
    ELSE [raised |-> FALSE,
          value |-> IF request.use_rerank /\ candidates.value # <<>>
                    THEN rerank(candidates.value, request.limit, relevance)
                    ELSE Take(candidates.value, request.limit)]

\* query() over the tables it iterates
QueryOver(db, tables, request, relevance) ==
    Returned(Candidates(Collect(db, tables, request, 1), request),
             request, relevance)

QueryResult(db, request, relevance) ==
    QueryOver(db, TablesOf(request), request, relevance)

\* ------------------------------------------------- the calls query() makes
\* one call out of query(): what is called, on which table, with which argument
Call(op, table_name, arg) == [op |-> op, table |-> table_name, arg |-> arg]

\* model.encode(text).tolist()
Encode(text) == <<"embedding", text>>

\* the searches one iteration of the loop issues, after open_table
SearchCalls(table, table_name, request, embedding) ==
    IF table.open_raises THEN <<>>
    ELSE IF request.use_hybrid
    THEN <<Call("vector_search", table_name, embedding),
           Call("fts_search", table_name, <<request.text>>)>>
    ELSE <<Call("vector_search", table_name, embedding)>>

\* LoopCalls with the embedding computed inside the loop, once per table
RECURSIVE LoopCallsReembed(_, _, _, _, _)
LoopCallsReembed(db, tables, request, embedding, j) ==
    IF j > Len(tables) THEN <<>>
    ELSE <<Call("open_table", tables[j], <<>>),
           Call("encode", "", <<request.text>>)>>
         \o SearchCalls(OpenTable(db, tables[j]), tables[j], request, embedding)
         \o LoopCallsReembed(db, tables, request, embedding, j + 1)

\* the calls of the loop over tables, from the j-th table on
RECURSIVE LoopCalls(_, _, _, _, _)
LoopCalls(db, tables, request, embedding, j) ==
    IF j > Len(tables) THEN <<>>
    ELSE <<Call("open_table", tables[j], <<>>)>>
         \o SearchCalls(OpenTable(db, tables[j]), tables[j], request, embedding)
         \o LoopCalls(db, tables, request, embedding, j + 1)

\* RerankCalls without the early return on an empty list
RerankCallsAlways(results) ==
    <<Call("get_rerank_model", "", <<>>), Call("predict", "", <<>>)>>

\* the calls rerank() makes on results
RerankCalls(results) ==
    IF results = <<>> THEN <<>>
    ELSE <<Call("get_rerank_model", "", <<>>), Call("predict", "", <<>>)>>

\* every call of one query(), in order, when no exception leaves it
QueryCalls(db, request, candidates) ==
    LET embedding == Encode(request.text)
    IN <<Call("connect", "", <<>>), Call("get_embedding_model", "", <<>>),
         Call("encode", "", <<request.text>>)>>
       \o (IF request.category # "all" THEN <<>>
           ELSE <<Call("list_tables", "", <<>>)>>)
       \o LoopCalls(db, TablesOf(request), request, embedding, 1)
       \o (IF request.use_rerank /\ candidates # <<>>
           THEN RerankCalls(candidates) ELSE <<>>)
       \o <<Call("log_query", "", <<>>)>>

\* -------------------------------------------------------------------- state
VARIABLES
    thread,            \* per thread: where its query() call is, and its locals
    model_lock,        \* the thread inside `with _model_lock`, NoThread if none
    constructions,     \* per model: the outcome of each run of its constructor
    calls,             \* the calls the query() call made, in order
    rerank_args,       \* the arguments of the call of rerank(), if one was made
    db,                \* the corpus: per category, what its table answers
    request,           \* the arguments of the query() call
    per_category,      \* hits of each table, as the loop of query() got them
    results,           \* the list query() returned
    log,               \* logs/queries.jsonl, one entry per line
    log_dir_created,   \* _log_dir_created
    embedding_model,   \* _embedding_model
    rerank_model,      \* _rerank_model
    raised,            \* whether an exception left query()
    pc                 \* "ready" before the call, "returned" after it

vars == <<db, request, per_category, results, log, log_dir_created,
          embedding_model, rerank_model, raised, pc, calls,
          thread, model_lock, constructions, rerank_args>>

\* distance of a row's embedding from the query embedding: a row's vector is
\* encode(content), so rows of equal content are equally far
Distance(content) == IF content = "a" THEN 1 ELSE 2

BoundedSeq(S, n) == UNION {[1..m -> S] : m \in 0..n}

\* what a vector search may answer: rows by ascending distance
VectorAnswers ==
    {[p \in DOMAIN cs |-> [content |-> cs[p], distance |-> Distance(cs[p])]] :
        cs \in {s \in BoundedSeq(Contents, MaxHits) :
                  \A p \in 1..(Len(s) - 1) :
                      Distance(s[p]) <= Distance(s[p + 1])}}

\* what a full-text search may answer: rows in any order, without a distance
FtsAnswers ==
    {[p \in DOMAIN cs |-> [content |-> cs[p], distance |-> Absent]] :
        cs \in BoundedSeq(Contents, MaxHits)}

\* a table: open_table may raise, and each search may raise or answer
Tables ==
    {t \in [open_raises : BOOLEAN, vector_raises : BOOLEAN,
            fts_raises : BOOLEAN,
            vector_hits : VectorAnswers, fts_hits : FtsAnswers] :
        /\ (t.open_raises => t.vector_raises /\ t.fts_raises)
        /\ (t.vector_raises => t.vector_hits = <<>>)
        /\ (t.fts_raises => t.fts_hits = <<>>)}

Rows(d) ==
    Len(d["usage_patterns"].vector_hits) + Len(d["usage_patterns"].fts_hits)
    + Len(d["gotchas"].vector_hits) + Len(d["gotchas"].fts_hits)

Corpora == {d \in [Categories -> Tables] : Rows(d) <= MaxHits}

Requests ==
    {r \in [text : {"return type too large"}, category : Scopes,
            limit : Limits, use_rerank : BOOLEAN, use_hybrid : BOOLEAN,
            hybrid_weight : Weights, source : {"cli"}] :
        (~r.use_hybrid \/ r.use_rerank) => r.hybrid_weight = DefaultWeight}

NoRequest ==
    [text |-> "", category |-> "all", limit |-> 0, use_rerank |-> FALSE,
     use_hybrid |-> FALSE, hybrid_weight |-> 0, source |-> ""]

Relevances == [Contents -> RerankScores]

\* what the reranker answers in the specifications that do not vary it
SomeRelevance == [c \in Contents |-> IF c = "a" THEN 1 ELSE 2]

Threads == 1..MaxThreads
NoThread == 0
Models == {"embedding", "rerank"}

\* a thread that has not called query(); saw is what the first check of each
\* getter read, locked whether the call of the getter took the lock
IdleThread ==
    [pc |-> "idle", getting |-> "none", request |-> NoRequest,
     got |-> [m \in Models |-> "None"], results |-> <<>>, raised |-> FALSE,
     saw |-> [m \in Models |-> "unchecked"],
     locked |-> [m \in Models |-> FALSE]]

\* no call of rerank() was made
NoRerank ==
    [called |-> FALSE, results |-> <<>>, top_k |-> 0,
     relevance |-> [c \in Contents |-> 0]]

\* the module as imported, before any call
Fresh ==
    /\ request = NoRequest
    /\ per_category = [c \in Categories |-> <<>>]
    /\ results = <<>>
    /\ log = <<>>
    /\ log_dir_created = FALSE
    /\ embedding_model = "None"
    /\ rerank_model = "None"
    /\ raised = FALSE
    /\ pc = "ready"
    /\ calls = <<>>
    /\ thread = [t \in Threads |-> IdleThread]
    /\ model_lock = NoThread
    /\ constructions = [m \in Models |-> <<>>]
    /\ rerank_args = NoRerank

Init == db \in Corpora /\ Fresh

Searched(req, c) == \E j \in DOMAIN TablesOf(req) : TablesOf(req)[j] = c

\* one call of query(): relevance is what the reranker answers, failure what
\* goes wrong in log_query.  An exception leaving query() is kept in raised;
\* one of the loop or of rerank leaves before log_query.  lancedb.connect,
\* db.list_tables and the construction of the two models succeed here.
Query(req, relevance, failure) ==
    LET candidates == Candidates(Collect(db, TablesOf(req), req, 1), req)
        returned == Returned(candidates, req, relevance)
        logged ==
            IF returned.raised
            THEN [raised |-> TRUE, log |-> log,
                  log_dir_created |-> log_dir_created]
            ELSE log_query(log, log_dir_created,
                           LogEntry(req.text, returned.value, req.source),
                           failure)
    IN /\ pc = "ready"
       /\ request' = req
       /\ embedding_model' = "loaded"
       /\ per_category' =
             [c \in Categories |->
                 IF Searched(req, c) THEN TableHits(db, c, req).value ELSE <<>>]
       /\ raised' = logged.raised
       /\ results' = IF logged.raised THEN <<>> ELSE returned.value
       /\ rerank_model' =
             IF ~candidates.raised /\ req.use_rerank /\ candidates.value # <<>>
             THEN "loaded" ELSE rerank_model
       /\ log' = logged.log
       /\ log_dir_created' = logged.log_dir_created
       /\ pc' = "returned"
       /\ calls' = QueryCalls(db, req, candidates.value)
       /\ rerank_args' =
             IF ~candidates.raised /\ req.use_rerank /\ candidates.value # <<>>
             THEN [called |-> TRUE, results |-> candidates.value,
                   top_k |-> req.limit, relevance |-> relevance]
             ELSE NoRerank
       /\ UNCHANGED <<db, thread, model_lock, constructions>>

\* log_query's failures are outside this specification: the log is writable
Next ==
    \E req \in Requests :
        \E relevance \in IF req.use_rerank THEN Relevances
                         ELSE {[c \in Contents |-> 1]} :
            Query(req, relevance, "none")

Spec == Init /\ [][Next]_vars

\* ------------------------------------------------------ calls that rerank
\* rows as the two searches answer them
Row(content) == [content |-> content, distance |-> Distance(content)]
FtsRow(content) == [content |-> content, distance |-> Absent]

\* tables that answer: none, or two rows with or without a full-text hit
WideTables ==
    {t \in [open_raises : {FALSE}, vector_raises : {FALSE},
            fts_raises : {FALSE},
            vector_hits : {<<>>, <<Row("a"), Row("b")>>},
            fts_hits : {<<>>, <<FtsRow("b")>>}] :
        t.vector_hits = <<>> => t.fts_hits = <<>>}

\* corpora of up to four rows, more than the reranker's pool of a limit of 1
WideCorpora == [Categories -> WideTables]

RerankRequests == {r \in Requests : r.use_rerank}

\* the hits a caller of rerank() may pass: two of one content, one of another
CandidateHits ==
    {[Hit(Row("a")) EXCEPT !.category = c] : c \in Categories}
        \cup {[Hit(Row("b")) EXCEPT !.category = "gotchas"]}

\* rerank(query_text, results, top_k) called on its own
Rerank(candidates, top_k, relevance) ==
    /\ pc = "ready"
    /\ rerank_args' = [called |-> TRUE, results |-> candidates,
                        top_k |-> top_k, relevance |-> relevance]
    /\ results' = rerank(candidates, top_k, relevance)
    /\ calls' = RerankCalls(candidates)
    /\ rerank_model' =
          IF \E i \in DOMAIN RerankCalls(candidates) :
                 RerankCalls(candidates)[i].op = "get_rerank_model"
          THEN "loaded" ELSE rerank_model
    /\ pc' = "reranked"
    /\ UNCHANGED <<db, request, per_category, log, log_dir_created,
                   embedding_model, raised, thread, model_lock, constructions>>

RerankInit == db \in WideCorpora /\ Fresh

RerankNext ==
    \/ \E req \in RerankRequests :
          \E relevance \in Relevances : Query(req, relevance, "none")
    \/ \E candidates \in BoundedSeq(CandidateHits, MaxCandidates) :
          \E top_k \in 0..MaxLimit :
              \E relevance \in Relevances :
                  Rerank(candidates, top_k, relevance)

\* query() with reranking on the wide corpora, and rerank() called on its own
RerankSpec == RerankInit /\ [][RerankNext]_vars

\* ------------------------------------------------- calls that log, or fail to
\* calls that return one hit and calls that return more than the log keeps
LogRequests ==
    {[r EXCEPT !.limit = l] :
        r \in {q \in Requests : q.limit = 1}, l \in {1, MaxLimit + 2}}

LogInit == db \in WideCorpora /\ Fresh

LogNext ==
    \E req \in LogRequests :
        \E relevance \in IF req.use_rerank THEN Relevances
                         ELSE {SomeRelevance} :
            \E failure \in LogFailures : Query(req, relevance, failure)

\* query() on the wide corpora with a log that may fail
LogSpec == LogInit /\ [][LogNext]_vars

\* ------------------------------------------------- query() called by threads
\* Each thread makes one call of query().  A step is one access to the shared
\* state: a read of a model slot, the acquisition or release of _model_lock,
\* a run of a constructor, the append to the log.  The searches, the sort and
\* the rerank of one call touch nothing shared and are one step each.

\* _embedding_model, _rerank_model
Slot(m) == IF m = "embedding" THEN embedding_model ELSE rerank_model

\* the object the n-th run of a constructor makes
Instance(m, n) ==
    (IF m = "embedding" THEN "SentenceTransformer#" ELSE "CrossEncoder#")
        \o ToString(n)

\* a getter that takes the lock whatever the slot holds
FirstCheckSkipped(slot) == TRUE

\* `if _embedding_model is None:` outside the lock
FirstCheck(slot) == slot = "None"

\* the getter without the check under the lock
SecondCheckSkipped(slot) == TRUE

\* `if _embedding_model is None:` under the lock
SecondCheck(slot) == slot = "None"

\* a lock that does not exclude
LockIgnored(lock) == TRUE

\* `with _model_lock:` is entered when no thread holds the lock
LockFree(lock) == lock = NoThread

\* a lock that an exception inside the with block leaves held
LockKeptOnRaise(lock) == lock

\* __exit__ of `with _model_lock:` when the block raises
LockOnRaise(lock) == NoThread

\* an exception of the constructor caught where the getter is called
RaiseSwallowed(th) == [th EXCEPT !.pc = "log", !.getting = "none"]

\* an exception of the constructor leaves the getter and query(): neither call
\* of a getter (lines 184 and 79) is inside a try
Raise(th) == [th EXCEPT !.pc = "raised", !.getting = "none", !.raised = TRUE]

\* query(...) is called: lancedb.connect, then get_embedding_model()
Start(t, req) ==
    /\ thread[t].pc = "idle"
    /\ thread' = [thread EXCEPT ![t] =
                     [@ EXCEPT !.pc = "check", !.getting = "embedding",
                               !.request = req]]
    /\ UNCHANGED <<db, request, per_category, results, log, log_dir_created,
                   embedding_model, rerank_model, raised, pc, calls, rerank_args,
                   model_lock, constructions>>

\* the first check of a getter
Check(t) ==
    /\ thread[t].pc = "check"
    /\ thread' = [thread EXCEPT ![t] =
                     [@ EXCEPT !.saw[thread[t].getting] =
                                   Slot(thread[t].getting),
                               !.pc = IF FirstCheck(Slot(thread[t].getting))
                                      THEN "acquire" ELSE "return"]]
    /\ UNCHANGED <<db, request, per_category, results, log, log_dir_created,
                   embedding_model, rerank_model, raised, pc, calls, rerank_args,
                   model_lock, constructions>>

\* __enter__ of `with _model_lock:`
Acquire(t) ==
    /\ thread[t].pc = "acquire"
    /\ LockFree(model_lock)
    /\ model_lock' = t
    /\ thread' = [thread EXCEPT ![t] =
                     [@ EXCEPT !.pc = "check2",
                               !.locked[thread[t].getting] = TRUE]]
    /\ UNCHANGED <<db, request, per_category, results, log, log_dir_created,
                   embedding_model, rerank_model, raised, pc, calls, rerank_args,
                   constructions>>

\* the check under the lock
Check2(t) ==
    /\ thread[t].pc = "check2"
    /\ thread' = [thread EXCEPT ![t].pc =
                     IF SecondCheck(Slot(thread[t].getting))
                     THEN "construct" ELSE "release"]
    /\ UNCHANGED <<db, request, per_category, results, log, log_dir_created,
                   embedding_model, rerank_model, raised, pc, calls, rerank_args,
                   model_lock, constructions>>

\* SentenceTransformer(...) or CrossEncoder(...) runs and returns (ok) or
\* raises; raising leaves the with block, which releases the lock
Construct(t, ok) ==
    LET m == thread[t].getting
        made == Instance(m, Len(constructions[m]) + 1)
    IN /\ thread[t].pc = "construct"
       /\ constructions' = [constructions EXCEPT ![m] = Append(@, ok)]
       /\ embedding_model' =
             IF ok /\ m = "embedding" THEN made ELSE embedding_model
       /\ rerank_model' = IF ok /\ m = "rerank" THEN made ELSE rerank_model
       /\ model_lock' = IF ok THEN model_lock ELSE LockOnRaise(model_lock)
       /\ thread' = [thread EXCEPT ![t] =
                        IF ok THEN [@ EXCEPT !.pc = "release"] ELSE Raise(@)]
       /\ UNCHANGED <<db, request, per_category, results, log,
                      log_dir_created, raised, pc, calls, rerank_args>>

\* __exit__ of `with _model_lock:`
Release(t) ==
    /\ thread[t].pc = "release"
    /\ model_lock' = NoThread
    /\ thread' = [thread EXCEPT ![t].pc = "return"]
    /\ UNCHANGED <<db, request, per_category, results, log, log_dir_created,
                   embedding_model, rerank_model, raised, pc, calls, rerank_args,
                   constructions>>

\* `return _embedding_model`: the slot is read again
Return(t) ==
    LET m == thread[t].getting
    IN /\ thread[t].pc = "return"
       /\ thread' = [thread EXCEPT ![t] =
                        [@ EXCEPT !.got[m] = Slot(m), !.getting = "none",
                                  !.pc = IF m = "embedding" THEN "search"
                                         ELSE "predict"]]
       /\ UNCHANGED <<db, request, per_category, results, log,
                      log_dir_created, embedding_model, rerank_model, raised,
                      pc, calls, rerank_args, model_lock, constructions>>

\* ThreadCandidates with the arguments of the call kept where every thread
\* writes them: the search runs on what the first thread asked
ThreadCandidatesShared(t) ==
    Candidates(Collect(db, TablesOf(thread[1].request), thread[1].request, 1),
               thread[1].request)

\* the candidates of the call thread t makes
ThreadCandidates(t) ==
    Candidates(Collect(db, TablesOf(thread[t].request), thread[t].request, 1),
               thread[t].request)

\* encode, the loop over the tables, the sort and results[:fetch_limit]; then
\* rerank() is entered and calls get_rerank_model(), or results[:limit]
Search(t) ==
    LET req == thread[t].request
        candidates == ThreadCandidates(t)
    IN /\ thread[t].pc = "search"
       /\ thread' = [thread EXCEPT ![t] =
             IF candidates.raised THEN Raise(@)
             ELSE IF req.use_rerank /\ candidates.value # <<>>
             THEN [@ EXCEPT !.pc = "check", !.getting = "rerank"]
             ELSE [@ EXCEPT !.pc = "log",
                            !.results = Take(candidates.value, req.limit)]]
       /\ UNCHANGED <<db, request, per_category, results, log,
                      log_dir_created, embedding_model, rerank_model, raised,
                      pc, calls, rerank_args, model_lock, constructions>>

\* reranker.predict, the scores, the sort and [:top_k]
Predict(t) ==
    /\ thread[t].pc = "predict"
    /\ thread' = [thread EXCEPT ![t] =
                     [@ EXCEPT !.pc = "log",
                               !.results = rerank(ThreadCandidates(t).value,
                                                  thread[t].request.limit,
                                                  SomeRelevance)]]
    /\ UNCHANGED <<db, request, per_category, results, log, log_dir_created,
                   embedding_model, rerank_model, raised, pc, calls, rerank_args,
                   model_lock, constructions>>

\* log_query is entered: the directory is made unless the flag says it was
\* (mkdir(exist_ok=True) by two threads at once is harmless), the flag is set
LogDir(t) ==
    /\ thread[t].pc = "log"
    /\ log_dir_created' = TRUE
    /\ thread' = [thread EXCEPT ![t].pc = "write"]
    /\ UNCHANGED <<db, request, per_category, results, log, embedding_model,
                   rerank_model, raised, pc, calls, rerank_args, model_lock,
                   constructions>>

\* log_query opens the file, appends its line and closes it: one write of
\* one short line; query() returns
Log(t) ==
    /\ thread[t].pc = "write"
    /\ log' = WriteLine(log, LogEntry(thread[t].request.text,
                                      thread[t].results,
                                      thread[t].request.source))
    /\ thread' = [thread EXCEPT ![t].pc = "done"]
    /\ UNCHANGED <<db, request, per_category, results, log_dir_created,
                   embedding_model, rerank_model, raised, pc, calls,
                   rerank_args, model_lock, constructions>>

\* the corpora of the threads: tables that answer, with at most one row each
ThreadCorpora ==
    {d \in Corpora :
        \A c \in Categories :
            /\ ~d[c].open_raises /\ ~d[c].vector_raises /\ ~d[c].fts_raises
            /\ d[c].fts_hits = <<>>
            /\ \A p \in DOMAIN d[c].vector_hits :
                  p = 1 /\ d[c].vector_hits[p].content = "a"}

\* the calls of the threads: without reranking from the command line, with
\* reranking from a hook
ThreadRequests ==
    {[r EXCEPT !.source = IF r.use_rerank THEN "hook" ELSE "cli"] :
        r \in {q \in Requests :
                  /\ q.category = "all" /\ q.limit = 1
                  /\ q.use_hybrid /\ q.hybrid_weight = DefaultWeight}}

ThreadInit == Init /\ db \in ThreadCorpora

\* a step of thread t inside get_embedding_model or get_rerank_model
GetterStep(t) ==
    \/ Check(t)
    \/ Acquire(t)
    \/ Check2(t)
    \/ \E ok \in BOOLEAN : Construct(t, ok)
    \/ Release(t)
    \/ Return(t)

\* a step of the call thread t is in
Step(t) ==
    \/ GetterStep(t)
    \/ Search(t)
    \/ Predict(t)
    \/ LogDir(t)
    \/ Log(t)

ThreadNext ==
    \E t \in Threads :
        \/ \E req \in ThreadRequests : Start(t, req)
        \/ Step(t)

\* query() called by MaxThreads threads at once
ThreadSpec == ThreadInit /\ [][ThreadNext]_vars

\* the same with a scheduler that lets every thread inside a getter step in
\* the end, and constructors that return or raise
FairThreadSpec == ThreadSpec /\ \A t \in Threads : WF_vars(GetterStep(t))

\* ------------------------------------------------------------ for the claims
\* the categories hybrid_search ran on in the call that returned
Fused(c) ==
    /\ pc = "returned"
    /\ request.use_hybrid
    /\ Searched(request, c)
    /\ ~db[c].open_raises

\* the limit hybrid_search was called with
FusionLimit == IF request.use_rerank THEN 3 * request.limit ELSE request.limit

\* what the two searches of category c answered (nothing when they raised)
VectorSeen(c) ==
    IF db[c].vector_raises THEN <<>>
    ELSE SubSeq(db[c].vector_hits, 1,
                Min(2 * FusionLimit, Len(db[c].vector_hits)))

FtsSeen(c) ==
    IF db[c].fts_raises THEN <<>>
    ELSE SubSeq(db[c].fts_hits, 1, Min(2 * FusionLimit, Len(db[c].fts_hits)))

ContentsOf(seq) == {seq[p].content : p \in DOMAIN seq}

\* 0-based index of the first row of seq with content x, Absent when none
FirstRank(seq, x) ==
    IF x \in ContentsOf(seq)
    THEN (CHOOSE i \in DOMAIN seq :
             /\ seq[i].content = x
             /\ \A j \in 1..(i - 1) : seq[j].content # x) - 1
    ELSE Absent

OrFallback(rank) == IF rank = Absent THEN 1000 ELSE rank

\* w/(60+vr) + (WDen-w)/(60+fr) as a fraction
Expected(w, vr, fr) ==
    <<w * (60 + fr) + (WDen - w) * (60 + vr), (60 + vr) * (60 + fr)>>

\* the score of hit is the RRF formula on its own two ranks
ScoreIsRRF(hit) ==
    /\ hit.hybrid_score # <<>>
    /\ hit.hybrid_score[2] > 0
    /\ RatEq(hit.hybrid_score,
             Expected(request.hybrid_weight, OrFallback(hit.vector_rank),
                      OrFallback(hit.fts_rank)))

AllFused ==
    UNION {{per_category[c][p] : p \in DOMAIN per_category[c]} : c \in Categories}

\* C1: every fused item's hybridScore is exactly
\* hybridWeight/(60+vectorRank) + (1-hybridWeight)/(60+textRank), in the
\* per-category lists and in the list query() returns, and two items with the
\* same rank pair have the same score.
C1_RRFScoreExact ==
    (pc = "returned" /\ request.use_hybrid) =>
        /\ \A h \in AllFused : ScoreIsRRF(h)
        /\ \A p \in DOMAIN results : ScoreIsRRF(results[p])
        /\ \A g, h \in AllFused :
              (g.vector_rank = h.vector_rank /\ g.fts_rank = h.fts_rank)
                  => g.hybrid_score = h.hybrid_score

C1_Witness ==
    /\ pc = "returned" /\ request.use_hybrid /\ request.hybrid_weight = 7
    /\ \E p \in DOMAIN results :
          /\ results[p].vector_rank # Absent
          /\ results[p].fts_rank # Absent

\* C2: an item only the vector search found is scored with textRank 1000, and
\* an item only the text search found with vectorRank 1000.
C2_OneSidedFallback ==
    \A c \in Categories : Fused(c) =>
        \A p \in DOMAIN per_category[c] :
            LET h == per_category[c][p]
                w == request.hybrid_weight
            IN /\ h.content \notin ContentsOf(FtsSeen(c)) =>
                    /\ h.fts_rank = Absent /\ h.vector_rank # Absent
                    /\ h.hybrid_score[1] * (60 + h.vector_rank) * 1060
                         = h.hybrid_score[2]
                             * (w * 1060 + (WDen - w) * (60 + h.vector_rank))
               /\ h.content \notin ContentsOf(VectorSeen(c)) =>
                    /\ h.vector_rank = Absent /\ h.fts_rank # Absent
                    /\ h.hybrid_score[1] * 1060 * (60 + h.fts_rank)
                         = h.hybrid_score[2]
                             * (w * (60 + h.fts_rank) + (WDen - w) * 1060)

\* a vector-only item at rank 0 under weight 0.7: 0.7/60 + 0.3/1060
C2_Witness ==
    /\ pc = "returned" /\ request.use_hybrid /\ request.hybrid_weight = 7
    /\ \E p \in DOMAIN results :
          /\ results[p].vector_rank = 0
          /\ results[p].fts_rank = Absent
          /\ RatEq(results[p].hybrid_score, <<7 * 1060 + 3 * 60, 60 * 1060>>)
    /\ \E p \in DOMAIN results :
          results[p].vector_rank = Absent /\ results[p].fts_rank = 0

\* C3: before truncation the fused list holds exactly one item per distinct
\* content of the two answers, and its rank in each modality is the first
\* (lowest) index of that content in that modality's answer.
C3_DedupKeepsBestRank ==
    \A c \in Categories : Fused(c) =>
        LET fused == ResultsMap(db[c], FusionLimit).value
            seen == ContentsOf(VectorSeen(c)) \cup ContentsOf(FtsSeen(c))
            First(h) ==
                /\ h.vector_rank = FirstRank(VectorSeen(c), h.content)
                /\ h.fts_rank = FirstRank(FtsSeen(c), h.content)
        IN /\ \A x \in Contents :
                 Cardinality({p \in DOMAIN fused : fused[p].content = x})
                     = IF x \in seen THEN 1 ELSE 0
           /\ \A p \in DOMAIN fused : First(fused[p])
           /\ \A p \in DOMAIN per_category[c] : First(per_category[c][p])
           /\ \A p, q \in DOMAIN per_category[c] :
                 p # q => per_category[c][p].content # per_category[c][q].content

\* a content twice in one answer, and its item returned
C3_Witness ==
    \E c \in Categories :
        /\ Fused(c)
        /\ \E i, j \in DOMAIN VectorSeen(c) :
              /\ i < j
              /\ VectorSeen(c)[i].content = VectorSeen(c)[j].content
              /\ \E p \in DOMAIN results :
                    /\ results[p].category = c
                    /\ results[p].content = VectorSeen(c)[i].content
                    /\ results[p].vector_rank = i - 1

\* C4: the list hybrid_search returns is sorted by non-increasing hybridScore,
\* has length min(limit, number of distinct fused items), and no fused item it
\* leaves out scores strictly higher than one it returns.
C4_FusedSortedAndTruncated ==
    \A c \in Categories : Fused(c) =>
        LET hits == per_category[c]
            seen == ContentsOf(VectorSeen(c)) \cup ContentsOf(FtsSeen(c))
            ScoreOf(x) ==
                Expected(request.hybrid_weight,
                         OrFallback(FirstRank(VectorSeen(c), x)),
                         OrFallback(FirstRank(FtsSeen(c), x)))
        IN /\ \A p, q \in DOMAIN hits :
                 p < q => ~RatLess(hits[p].hybrid_score, hits[q].hybrid_score)
           /\ Len(hits) = Min(FusionLimit, Cardinality(seen))
           /\ \A x \in seen \ ContentsOf(hits) :
                 \A p \in DOMAIN hits :
                     ~RatLess(hits[p].hybrid_score, ScoreOf(x))

\* more fused items than the limit, and the best one is not the first inserted
C4_Witness ==
    \E c \in Categories :
        /\ Fused(c)
        /\ Len(per_category[c]) = FusionLimit
        /\ Cardinality(ContentsOf(VectorSeen(c)) \cup ContentsOf(FtsSeen(c)))
              > FusionLimit
        /\ VectorSeen(c) # <<>>
        /\ per_category[c][1].content # VectorSeen(c)[1].content

\* <<content, category>> of every hit, in order
Items(hits) == [p \in DOMAIN hits |-> <<hits[p].content, hits[p].category>>]

\* no searched category answers the full-text search
NoTextAnywhere ==
    \A c \in Categories :
        Searched(request, c) => (db[c].fts_raises \/ db[c].fts_hits = <<>>)

\* no table holds the same content in two rows
NoDuplicateRows ==
    \A c \in Categories :
        \A i, j \in DOMAIN db[c].vector_hits :
            i # j => db[c].vector_hits[i].content # db[c].vector_hits[j].content

\* C5 (as claimed): with no full-text answer in any category, query() in
\* hybrid mode returns the same items in the same order as in vector-only
\* mode (stated for the calls without reranking and with a weight above 0,
\* over tables without duplicate rows).
C5_HybridEqualsVectorOnly ==
    (pc = "returned" /\ request.use_hybrid /\ ~request.use_rerank
        /\ request.hybrid_weight > 0 /\ NoTextAnywhere /\ NoDuplicateRows) =>
        Items(results)
            = Items(QueryResult(db, [request EXCEPT !.use_hybrid = FALSE],
                                [c \in Contents |-> 1]).value)

\* the score of hit h had the weight been w
ScoreAt(w, h) ==
    RRFScore(w, OrFallback(h.vector_rank), OrFallback(h.fts_rank))

VectorFavoured(h) == OrFallback(h.vector_rank) < OrFallback(h.fts_rank)
TextFavoured(h) == OrFallback(h.vector_rank) > OrFallback(h.fts_rank)

\* C6: for an item A ranked better by the vector search than by the text
\* search and an item B with the opposite profile, hybridScore(A) -
\* hybridScore(B) does not decrease as hybridWeight grows from 0 to 1.
C6_WeightMonotone ==
    (pc = "returned" /\ request.use_hybrid) =>
        \A A, B \in AllFused : (VectorFavoured(A) /\ TextFavoured(B)) =>
            /\ ScoreAt(request.hybrid_weight, A) = A.hybrid_score
            /\ ScoreAt(request.hybrid_weight, B) = B.hybrid_score
            /\ \A w1, w2 \in 0..WDen : w1 <= w2 =>
                  LET a1 == ScoreAt(w1, A)
                      b1 == ScoreAt(w1, B)
                      a2 == ScoreAt(w2, A)
                      b2 == ScoreAt(w2, B)
                  IN /\ a1[2] = a2[2] /\ b1[2] = b2[2]
                     /\ a1[2] > 0 /\ b1[2] > 0
                     /\ a1[1] * b1[2] - b1[1] * a1[2]
                           <= a2[1] * b2[2] - b2[1] * a2[2]

C6_Witness ==
    /\ pc = "returned" /\ request.use_hybrid /\ request.hybrid_weight = 7
    /\ \E A, B \in AllFused :
          /\ VectorFavoured(A) /\ TextFavoured(B)
          /\ A.category = B.category
          /\ RatLess(B.hybrid_score, A.hybrid_score)
          /\ RatLess(ScoreAt(0, A), ScoreAt(0, B))

\* C7: query() returns at most limit hits, in every mode.
C7_AtMostLimit ==
    pc = "returned" => Len(results) <= request.limit

\* the hits of all searched tables, in the order the loop appended them
Appended ==
    IF request.category = "all"
    THEN per_category["usage_patterns"] \o per_category["gotchas"]
    ELSE per_category[request.category]

C7_Witness ==
    /\ pc = "returned" /\ request.use_rerank /\ request.use_hybrid
    /\ Len(Appended) > request.limit
    /\ Len(results) = request.limit

Count(seq, x) == Cardinality({p \in DOMAIN seq : seq[p] = x})

Range(seq) == {seq[p] : p \in DOMAIN seq}

\* C8: without reranking the returned list is sorted across categories (by
\* non-increasing hybridScore, or by non-decreasing distance in vector-only
\* mode) and is the top `limit` of the concatenated per-category lists: it
\* holds min(limit, n) of their hits and leaves out none that sorts strictly
\* before one it holds.
C8_GloballySortedTop ==
    (pc = "returned" /\ ~request.use_rerank) =>
        LET Better(g, h) ==
                IF request.use_hybrid
                THEN RatLess(h.hybrid_score, g.hybrid_score)
                ELSE g.distance < h.distance
        IN /\ \A p, q \in DOMAIN results :
                 p < q => ~Better(results[q], results[p])
           /\ Len(results) = Min(request.limit, Len(Appended))
           /\ \A h \in Range(results) : Count(results, h) <= Count(Appended, h)
           /\ \A h \in Range(Appended) :
                 Count(results, h) < Count(Appended, h) =>
                     \A p \in DOMAIN results : ~Better(h, results[p])

\* a hit of the second table comes first, and a hit is left out
C8_Witness ==
    /\ pc = "returned" /\ ~request.use_rerank /\ request.category = "all"
    /\ per_category["usage_patterns"] # <<>>
    /\ Len(results) < Len(Appended)
    /\ results[1].category = "gotchas"

\* C9: inside hybrid_search a search that raises is recovered: the vector
\* search raising leaves the fusion of the text hits alone (vectorRank 1000
\* each), the text search raising the fusion of the vector hits alone, both
\* raising the empty list; hybrid_search itself never raises.
C9_ModalityFailureRecovered ==
    \A c \in Categories : Fused(c) =>
        LET hits == per_category[c]
            Alone(seen, OwnRank(_), OtherRank(_)) ==
                /\ Len(hits) = Min(FusionLimit, Cardinality(ContentsOf(seen)))
                /\ \A p \in DOMAIN hits :
                      /\ hits[p].content \in ContentsOf(seen)
                      /\ OwnRank(hits[p]) = FirstRank(seen, hits[p].content)
                      /\ OtherRank(hits[p]) = Absent
                      /\ ScoreIsRRF(hits[p])
                /\ \A p, q \in DOMAIN hits :
                      p # q => hits[p].content # hits[q].content
            VRank(h) == h.vector_rank
            FRank(h) == h.fts_rank
        IN /\ ~hybrid_search(db[c], FusionLimit, request.hybrid_weight).raised
           /\ ~raised
           /\ (db[c].vector_raises /\ ~db[c].fts_raises) =>
                 Alone(FtsSeen(c), FRank, VRank)
           /\ (db[c].fts_raises /\ ~db[c].vector_raises) =>
                 Alone(VectorSeen(c), VRank, FRank)
           /\ (db[c].vector_raises /\ db[c].fts_raises) => hits = <<>>

C9_Witness ==
    \E c \in Categories :
        /\ Fused(c)
        /\ db[c].vector_raises /\ ~db[c].fts_raises
        /\ Len(per_category[c]) = 2
        /\ results # <<>>

\* the loop body of query() raises for category c
CategoryFails(c) ==
    db[c].open_raises \/ (~request.use_hybrid /\ db[c].vector_raises)

Unranked(hits) == [p \in DOMAIN hits |-> [hits[p] EXCEPT !.rerank_score = Absent]]

\* C10: a category whose open or search fails contributes no hits and query()
\* does not raise; the other categories' hits are still collected, and the
\* result is made of them; with every category failing the result is empty.
C10_CategoryFailureIsolated ==
    pc = "returned" =>
        /\ ~raised
        /\ \A c \in Categories :
              /\ (Searched(request, c) /\ CategoryFails(c)) =>
                    per_category[c] = <<>>
              /\ (Searched(request, c) /\ ~CategoryFails(c)
                    /\ ~request.use_hybrid) =>
                    /\ Len(per_category[c])
                          = Min(request.limit * (IF request.use_rerank THEN 3 ELSE 1),
                                Len(db[c].vector_hits))
                    /\ \A p \in DOMAIN per_category[c] :
                          /\ per_category[c][p].content
                                = db[c].vector_hits[p].content
                          /\ per_category[c][p].category = c
              /\ (Searched(request, c) /\ ~CategoryFails(c)
                    /\ request.use_hybrid) =>
                    /\ Len(per_category[c])
                          = Min(FusionLimit,
                                Cardinality(ContentsOf(VectorSeen(c))
                                            \cup ContentsOf(FtsSeen(c))))
                    /\ \A p \in DOMAIN per_category[c] :
                          per_category[c][p].category = c
        /\ Len(results) = Min(request.limit, Len(Appended))
        /\ \A h \in Range(Unranked(results)) :
              Count(Unranked(results), h) <= Count(Appended, h)
        /\ (\A c \in Categories : Searched(request, c) => CategoryFails(c))
              => results = <<>>

\* one category cannot be opened, the other one's hits are returned
C10_Witness ==
    /\ pc = "returned" /\ request.category = "all"
    /\ db["usage_patterns"].open_raises
    /\ ~raised
    /\ Len(results) = 2
    /\ \A p \in DOMAIN results : results[p].category = "gotchas"

\* ------------------------------------------------------- the model cache
Runs(m) == Len(constructions[m])
Successes(m) ==
    Cardinality({i \in DOMAIN constructions[m] : constructions[m][i]})
Failures(m) == Runs(m) - Successes(m)

\* the threads about to run the constructor of m
Constructing(m) ==
    {t \in Threads : thread[t].pc = "construct" /\ thread[t].getting = m}

\* C13: under every interleaving of concurrent first calls of a getter the
\* constructor of its model succeeds at most once, no thread is about to run
\* it again once it has succeeded, and where no run raised it ran at most once.
C13_ConstructedAtMostOnce ==
    \A m \in Models :
        /\ Successes(m) + Cardinality(Constructing(m)) <= 1
        /\ (Failures(m) = 0 => Runs(m) <= 1)

\* a thread found the slot empty and waits for the lock, and meanwhile another
\* thread has constructed the model
C13_Witness ==
    \E t \in Threads :
        /\ thread[t].pc = "acquire" /\ thread[t].getting = "embedding"
        /\ constructions["embedding"] = <<TRUE>>
        /\ embedding_model # "None"

\* C14: a constructor that raises makes the query() that called it raise (it
\* returns nothing and logs nothing) with the lock released, the slot is
\* empty exactly as long as no run has succeeded, and no getter returns an
\* empty slot: a later call runs the constructor again.
C14_ConstructionFailurePropagates ==
    /\ \A m \in Models : (Slot(m) = "None") <=> (Successes(m) = 0)
    /\ Cardinality({t \in Threads : thread[t].raised})
          = Failures("embedding") + Failures("rerank")
    /\ \A t \in Threads :
          /\ thread[t].raised =>
                /\ thread[t].pc = "raised"
                /\ thread[t].results = <<>>
                /\ model_lock # t
          /\ thread[t].pc = "return" => Slot(thread[t].getting) # "None"
    /\ Len(log) = Cardinality({t \in Threads : thread[t].pc = "done"})

\* the first construction raised and its query() with it; a later call
\* constructed the model and returned
C14_Witness ==
    /\ constructions["embedding"] = <<FALSE, TRUE>>
    /\ \E t, u \in Threads :
          /\ thread[t].raised /\ thread[t].pc = "raised"
          /\ thread[u].pc = "done"
          /\ thread[u].got["embedding"] = Instance("embedding", 2)
          /\ embedding_model = Instance("embedding", 2)

\* what a thread got from a getter is what the slot holds
GotIsSlot ==
    \A t \in Threads :
        /\ \A m \in Models :
              thread[t].got[m] # "None" => thread[t].got[m] = Slot(m)
        /\ thread[t].pc = "search" => thread[t].got["embedding"] # "None"
        /\ thread[t].pc = "predict" => thread[t].got["rerank"] # "None"

\* a slot that holds an instance keeps it
SlotKept ==
    /\ embedding_model # "None" => embedding_model' = embedding_model
    /\ rerank_model # "None" => rerank_model' = rerank_model

\* C15: a model slot that holds an instance is never reassigned or cleared,
\* and every getter call of every thread returns the instance of the slot.
C15_WriteOnce == [][SlotKept]_vars /\ []GotIsSlot

\* two calls got the same embedding model, which was constructed once
C15_Witness ==
    \E t, u \in Threads :
        /\ t # u
        /\ thread[t].pc = "done" /\ thread[u].pc = "done"
        /\ thread[t].got["embedding"] = Instance("embedding", 1)
        /\ thread[u].got["embedding"] = Instance("embedding", 1)
        /\ thread[t].got["rerank"] = Instance("rerank", 1)
        /\ thread[u].got["rerank"] = Instance("rerank", 1)

\* ------------------------------------------------------------- reranking
\* the hits of candidates that results leaves out all score at most `most`
OmittedScoreAtMost(candidates, relevance, most) ==
    \A h \in Range(candidates) :
        Count(Unranked(results), h) < Count(candidates, h) =>
            relevance[h.content] <= most

\* results is candidates scored by relevance, ordered by the score alone and
\* cut to top_k
RerankedFrom(candidates, top_k, relevance) ==
    /\ Len(results) = Min(top_k, Len(candidates))
    /\ \A h \in Range(Unranked(results)) :
          Count(Unranked(results), h) <= Count(candidates, h)
    /\ \A p \in DOMAIN results :
          /\ results[p].rerank_score = relevance[results[p].content]
          /\ OmittedScoreAtMost(candidates, relevance, results[p].rerank_score)
    /\ \A p, q \in DOMAIN results :
          p < q => results[p].rerank_score >= results[q].rerank_score

\* C16: rerank() on a non-empty candidate list returns exactly
\* min(top_k, |candidates|) hits, each one of the candidates, in non-increasing
\* rerankScore order, and no candidate it leaves out has a strictly higher
\* rerankScore than one it returns.
C16_RerankTopK ==
    (rerank_args.called /\ rerank_args.results # <<>>) =>
        RerankedFrom(rerank_args.results, rerank_args.top_k,
                     rerank_args.relevance)

\* three candidates, two returned, and the first candidate is not the first hit
C16_Witness ==
    /\ pc = "reranked"
    /\ Len(rerank_args.results) = 3 /\ rerank_args.top_k = 2
    /\ Len(results) = 2
    /\ results[1].content # rerank_args.results[1].content
    /\ results[1].rerank_score > results[2].rerank_score

\* g sorts strictly before h in the global sort of the call
SortsBefore(g, h) ==
    IF request.use_hybrid THEN RatLess(h.hybrid_score, g.hybrid_score)
    ELSE g.distance < h.distance

\* C17: with reranking the list passed to the reranker is the top
\* min(3*limit, n) of the globally sorted hits, and the list query() returns
\* is that pool ordered and cut by rerankScore alone.
C17_RerankReplacesOrder ==
    (pc = "returned" /\ request.use_rerank /\ Appended # <<>>) =>
        LET pool == rerank_args.results
        IN /\ rerank_args.called
           /\ rerank_args.top_k = request.limit
           /\ Len(pool) = Min(3 * request.limit, Len(Appended))
           /\ \A p, q \in DOMAIN pool : p < q => ~SortsBefore(pool[q], pool[p])
           /\ \A h \in Range(pool) : Count(pool, h) <= Count(Appended, h)
           /\ \A h \in Range(Appended) :
                 Count(pool, h) < Count(Appended, h) =>
                     \A p \in DOMAIN pool : ~SortsBefore(h, pool[p])
           /\ RerankedFrom(pool, request.limit, rerank_args.relevance)

\* more hits than the pool takes, and the hit returned first is not the one
\* the global sort put first
C17_Witness ==
    /\ pc = "returned" /\ request.use_rerank /\ request.use_hybrid
    /\ Len(Appended) > 3 * request.limit
    /\ Len(rerank_args.results) = 3 * request.limit
    /\ results # <<>>
    /\ SortsBefore(rerank_args.results[1], results[1])

RerankerCalled ==
    \E i \in DOMAIN calls : calls[i].op \in {"get_rerank_model", "predict"}

\* C18: rerank() on an empty list returns it and neither constructs nor
\* invokes the rerank model; query() with reranking asked for and no hit in
\* any category returns the empty list and does not call the reranker.
C18_EmptyNotReranked ==
    /\ (pc = "reranked" /\ rerank_args.results = <<>>) =>
          /\ results = rerank_args.results
          /\ ~RerankerCalled
          /\ rerank_model = "None"
    /\ (pc = "returned" /\ request.use_rerank /\ Appended = <<>>) =>
          /\ results = <<>>
          /\ ~rerank_args.called
          /\ ~RerankerCalled
          /\ rerank_model = "None"

\* rerank() was called on the empty list and asked for two hits
C18_Witness ==
    /\ pc = "reranked"
    /\ rerank_args.called /\ rerank_args.results = <<>>
    /\ rerank_args.top_k = 2
    /\ results = <<>>

\* ------------------------------------------------------ order of the tables
\* seq backwards
Reversed(seq) == [p \in DOMAIN seq |-> seq[Len(seq) + 1 - p]]

\* what the reranker answered in the call, if it was asked
RelevanceOfCall ==
    IF rerank_args.called THEN rerank_args.relevance ELSE SomeRelevance

\* C19 (as claimed): query() over all categories returns the same hits in the
\* same order whichever way the categories are iterated, also when hits of
\* different categories have equal scores (stated for the corpora whose
\* vector searches answer, without full-text answers or duplicate rows).
C19_CategoryOrderIrrelevant ==
    (pc = "returned" /\ request.category = "all" /\ request.hybrid_weight > 0
        /\ NoTextAnywhere /\ NoDuplicateRows) =>
        results = QueryOver(db, Reversed(ListTables), request,
                            RelevanceOfCall).value

\* ------------------------------------------------------- the query embedding
\* positions of the calls of op
CallsOf(op) == {i \in DOMAIN calls : calls[i].op = op}

\* C20: one query() computes the query embedding exactly once, before any
\* table is opened or searched, and every vector search of the call, one per
\* table that opens, is given that embedding.
C20_EmbeddingOnce ==
    pc = "returned" =>
        /\ Cardinality(CallsOf("encode")) = 1
        /\ \A i \in CallsOf("encode") :
              /\ calls[i].arg = <<request.text>>
              /\ \A j \in CallsOf("open_table") \cup CallsOf("vector_search")
                           \cup CallsOf("fts_search") : i < j
              /\ \A j \in CallsOf("vector_search") :
                    calls[j].arg = Encode(calls[i].arg[1])
        /\ \A c \in Categories :
              Cardinality({j \in CallsOf("vector_search") : calls[j].table = c})
                  = IF Searched(request, c) /\ ~db[c].open_raises THEN 1 ELSE 0

\* both tables were searched with the embedding, and both have hits
C20_Witness ==
    /\ pc = "returned" /\ request.category = "all"
    /\ Cardinality(CallsOf("vector_search")) = 2
    /\ per_category["usage_patterns"] # <<>>
    /\ per_category["gotchas"] # <<>>

\* ------------------------------------------------ calls with bad arguments
\* hybrid_weight below 0 and above 1
BadWeights == {0 - 3, WDen + 5}

UnknownCategory == "nonexistent"

BadWeight(r) == r.hybrid_weight \notin 0..WDen
BadLimit(r) == r.limit <= 0
BadCategory(r) == r.category \notin (Categories \cup {"all"})

\* the requests with exactly one bad argument
BadRequests ==
    {r \in [text : {"return type too large"},
            category : Scopes \cup {UnknownCategory},
            limit : Limits \cup {0}, use_rerank : BOOLEAN,
            use_hybrid : BOOLEAN,
            hybrid_weight : BadWeights \cup {DefaultWeight}, source : {"cli"}] :
        \/ BadWeight(r) /\ ~BadLimit(r) /\ ~BadCategory(r)
        \/ ~BadWeight(r) /\ BadLimit(r) /\ ~BadCategory(r)
        \/ ~BadWeight(r) /\ ~BadLimit(r) /\ BadCategory(r)}

BadNext == \E req \in BadRequests : Query(req, SomeRelevance, "none")

\* query() called with a bad argument, on every corpus
BadRequestSpec == Init /\ [][BadNext]_vars

SearchIssued ==
    \E i \in DOMAIN calls : calls[i].op \in {"vector_search", "fts_search"}

\* C11 (as claimed): query() called with a hybridWeight outside [0,1] or with
\* a limit <= 0 raises, and issues no vector or text search for any category.
C11_BadArgumentsRejected ==
    (pc = "returned" /\ (BadWeight(request) \/ BadLimit(request))) =>
        (raised /\ ~SearchIssued)

\* C12 (as claimed): query() called with a specific category name that is not
\* a category of the corpus raises.
C12_UnknownCategoryRejected ==
    (pc = "returned" /\ BadCategory(request)) => raised

\* ------------------------------------------------------------ the query log
\* C21: a failure of log_query (the directory cannot be made, the file cannot
\* be opened or written, the entry cannot be serialised) is swallowed: query()
\* does not raise and returns the result of the same call with a working
\* log; a failed write leaves the log as it was.
C21_LogFailureSwallowed ==
    pc = "returned" =>
        /\ ~raised
        /\ results = QueryResult(db, request, RelevanceOfCall).value
        /\ log \in {<<>>, <<LogEntry(request.text, results, request.source)>>}

\* a call that returned hits although the line was not written
C21_Witness ==
    pc = "returned" /\ results # <<>> /\ log = <<>> /\ log_dir_created

\* the score by which a returned hit was ordered, as a fraction
RankingScore(hit) ==
    IF hit.rerank_score # Absent THEN <<hit.rerank_score, 1>>
    ELSE IF request.use_hybrid THEN hit.hybrid_score
    ELSE <<hit.distance, 1>>

\* the line the call wrote
Logged == log[Len(log)]

\* C22 (as claimed): the record query() writes has result_count equal to the
\* number of hits returned, and top categories and top scores of length
\* min(3, result_count) holding, in returned order, the category and the
\* ranking score of the first hits.
C22_LogHoldsRankingScores ==
    (pc = "returned" /\ log # <<>>) =>
        /\ Logged.result_count = Len(results)
        /\ Len(Logged.top_categories) = Min(3, Len(results))
        /\ Len(Logged.top_distances) = Min(3, Len(results))
        /\ \A p \in 1..Min(3, Len(results)) :
              /\ Logged.top_categories[p] = results[p].category
              /\ RatEq(<<Logged.top_distances[p], 1>>,
                       RankingScore(results[p]))

\* ------------------------------------------------------------- score fields
\* the score fields a hit carries
ScoreFields(hit) ==
    {f \in {"distance", "hybrid_score", "rerank_score"} :
        \/ f = "distance" /\ hit.distance # Absent
        \/ f = "hybrid_score" /\ hit.hybrid_score # <<>>
        \/ f = "rerank_score" /\ hit.rerank_score # Absent}

\* C23 (as claimed): every hit query() returns carries exactly the score
\* fields of its mode: distance alone in vector-only mode, the hybrid score
\* alone in hybrid mode without reranking, the hybrid score and the rerank
\* score in hybrid mode with reranking.
C23_OneScoreFieldSet ==
    pc = "returned" =>
        \A p \in DOMAIN results :
            ScoreFields(results[p]) =
                IF ~request.use_hybrid THEN {"distance"}
                ELSE IF ~request.use_rerank THEN {"hybrid_score"}
                ELSE {"hybrid_score", "rerank_score"}

\* C23 (amended): every hit query() returns carries the hybrid score exactly
\* when use_hybrid is set, the rerank score exactly when use_rerank is set,
\* and the distance exactly when the vector search of its category answered
\* it: always in vector-only mode, and in hybrid mode for every hit but those
\* that only the full-text search found.
C23_ScoreFieldsByMode ==
    pc = "returned" =>
        \A p \in DOMAIN results :
            LET hit == results[p]
            IN /\ ("hybrid_score" \in ScoreFields(hit)) <=> request.use_hybrid
               /\ ("rerank_score" \in ScoreFields(hit)) <=> request.use_rerank
               /\ ("distance" \in ScoreFields(hit)) <=>
                      (hit.content \in ContentsOf(VectorSeen(hit.category)))
               /\ ~request.use_hybrid => "distance" \in ScoreFields(hit)

\* a reranked hybrid call returned a hit with the three fields, and one that
\* only the full-text search found
C23_Witness ==
    /\ pc = "returned" /\ request.use_hybrid /\ request.use_rerank
    /\ \E p, q \in DOMAIN results :
          /\ ScoreFields(results[p]) =
                {"distance", "hybrid_score", "rerank_score"}
          /\ ScoreFields(results[q]) = {"hybrid_score", "rerank_score"}

\* ------------------------------------------------------- concurrent queries
\* C24: calls of query() that run at once over the same corpus do not
\* interfere: whatever the interleaving, a call that returns returns the
\* result of the same call run alone, and a call raises only when a
\* constructor raised.
C24_NoInterference ==
    \A t \in Threads :
        /\ thread[t].pc = "done" =>
              thread[t].results =
                  QueryResult(db, thread[t].request, SomeRelevance).value
        /\ thread[t].pc = "raised" => Failures("embedding") + Failures("rerank") > 0

\* two calls with different arguments that overlapped (both found the
\* embedding slot empty and took the lock) returned different results
C24_Witness ==
    \E t, u \in Threads :
        /\ thread[t].pc = "done" /\ thread[u].pc = "done"
        /\ thread[t].request # thread[u].request
        /\ thread[t].results # thread[u].results
        /\ thread[t].results # <<>> /\ thread[u].results # <<>>
        /\ log[1] = LogEntry(thread[t].request.text, thread[t].results,
                             thread[t].request.source)
        /\ thread[t].locked["embedding"] /\ thread[u].locked["embedding"]

\* the line of the call of thread t
LineOf(t) ==
    LogEntry(thread[t].request.text, thread[t].results,
             thread[t].request.source)

\* the calls that returned
Done == {t \in Threads : thread[t].pc = "done"}

\* every call that returned has its one line in the log, and no other line is
\* there
OneLineEach ==
    /\ Len(log) = Cardinality(Done)
    /\ \A t \in Done :
          Cardinality({i \in DOMAIN log : log[i] = LineOf(t)}) =
              Cardinality({u \in Done : LineOf(u) = LineOf(t)})

\* the lines that were in the log are still there, in their places
LogKept == Len(log') >= Len(log) /\ SubSeq(log', 1, Len(log)) = log

\* C25: with a writable log, every call of query() that returns has appended
\* one line, made of its final result, and under every interleaving of the
\* calls no line written before is changed, cut or lost.
C25_AppendOnly == [][LogKept]_vars /\ []OneLineEach

\* two calls that ran at once left two different lines
C25_Witness ==
    /\ Len(log) = 2 /\ log[1] # log[2]
    /\ \E t, u \in Done :
          /\ log[1] = LineOf(t) /\ log[2] = LineOf(u)
          /\ thread[t].locked["embedding"] /\ thread[u].locked["embedding"]

\* ------------------------------------------------------------ the fast path
\* the places of a getter where the lock is held
UnderLock == {"check2", "construct", "release"}

\* C27: a call of a getter whose first check finds the instance in the slot
\* returns that instance without taking the model lock; the lock is taken,
\* and held, only by calls whose first check found the slot empty.
C27_FastPath ==
    \A t \in Threads :
        \A m \in Models :
            /\ thread[t].locked[m] => thread[t].saw[m] = "None"
            /\ (/\ thread[t].getting = m
                /\ thread[t].pc \in UnderLock \cup {"acquire"})
                  => thread[t].saw[m] = "None"
            /\ model_lock = t => thread[t].pc \in UnderLock
            /\ thread[t].saw[m] \notin {"None", "unchecked"} =>
                  /\ ~thread[t].locked[m]
                  /\ thread[t].got[m] \in {"None", thread[t].saw[m]}
                  /\ thread[t].getting # m => thread[t].got[m] = thread[t].saw[m]

\* a call got the instance another call made, without the lock, while the
\* other call held it
C27_Witness ==
    \E t, u \in Threads :
        /\ t # u
        /\ thread[t].saw["embedding"] = Instance("embedding", 1)
        /\ thread[t].got["embedding"] = Instance("embedding", 1)
        /\ ~thread[t].locked["embedding"]
        /\ thread[u].locked["embedding"]
        /\ model_lock = u

\* ------------------------------------------------------------ the model lock
\* a thread holds the lock only inside a with block, and is not waiting for
\* it while it holds it
LockHeldInside ==
    \A t \in Threads :
        /\ model_lock = t => thread[t].pc \in UnderLock
        /\ thread[t].pc \in UnderLock => model_lock = t

\* a call that left a getter has an instance, or raised
LeftWithInstance ==
    \A t \in Threads :
        \A m \in Models :
            (thread[t].saw[m] # "unchecked" /\ thread[t].getting # m) =>
                (thread[t].raised \/ thread[t].got[m] # "None")

\* no call is inside a getter
NoneInGetter == \A t \in Threads : thread[t].getting = "none"

\* C30: the model lock is released on every way out of the two getters, also
\* when the constructor raises, and no thread takes it while holding it;
\* so, when every run of a constructor ends, every call of a getter returns
\* an instance or raises in the end.
C30_LockReleased == [](LockHeldInside /\ LeftWithInstance) /\ <>[]NoneInGetter

\* a call that waited for the lock took it after the constructor raised in
\* the call that held it
C30_Witness ==
    \E t, u \in Threads :
        /\ thread[u].raised /\ thread[u].locked["embedding"]
        /\ thread[t].locked["embedding"] /\ model_lock = t
        /\ Runs("embedding") = 1

\* ------------------------------------------------------------- vector-only
\* hit carries nothing of a fusion
Unfused(hit) ==
    /\ hit.hybrid_score = <<>>
    /\ hit.vector_rank = Absent /\ hit.fts_rank = Absent

\* the hits of category c are the first n answers of its vector search, as
\* answered
VectorHitsOf(c, n) ==
    /\ Len(per_category[c]) = Min(n, Len(db[c].vector_hits))
    /\ \A p \in DOMAIN per_category[c] :
          /\ per_category[c][p].content = db[c].vector_hits[p].content
          /\ per_category[c][p].distance = db[c].vector_hits[p].distance
          /\ p > 1 => per_category[c][p - 1].distance
                          <= per_category[c][p].distance

\* C26: with use_hybrid false, query() issues no full-text search and fuses
\* nothing: the hits of each category are its vector hits in ascending
\* distance, and no hit carries a hybrid score.
C26_VectorOnly ==
    (pc = "returned" /\ ~request.use_hybrid) =>
        /\ CallsOf("fts_search") = {}
        /\ \A c \in Categories :
              /\ (Searched(request, c) /\ ~db[c].open_raises
                                       /\ ~db[c].vector_raises)
                    => VectorHitsOf(c, FetchLimit(request))
              /\ \A p \in DOMAIN per_category[c] : Unfused(per_category[c][p])
        /\ \A p \in DOMAIN results : Unfused(results[p])

\* a vector-only call returned two hits, one of a category whose text index
\* would have answered
C26_Witness ==
    /\ pc = "returned" /\ ~request.use_hybrid
    /\ Len(results) = 2
    /\ \E c \in Categories :
          /\ db[c].fts_hits # <<>> /\ ~db[c].fts_raises
          /\ results[1].category = c

\* ------------------------------------------------------ the extreme weights
\* the table with an empty answer of one of its searches
WithoutText(table) == [table EXCEPT !.fts_hits = <<>>]
WithoutVector(table) == [table EXCEPT !.vector_hits = <<>>]

ContentSeq(hits) == [p \in DOMAIN hits |-> hits[p].content]

\* the fused list of category c is the one the table gives
FusedAsOf(c, table) ==
    ContentSeq(per_category[c]) =
        ContentSeq(hybrid_search(table, FusionLimit,
                                 request.hybrid_weight).value)

\* C28 (as claimed): at hybrid_weight 1.0 the members and the order of the
\* fused list of a category are those the vector list alone gives, whatever
\* the full-text search answered, and at 0.0 those the text list alone gives
\* (stated for the categories where both searches answer something).
C28_PureAtExtremes ==
    \A c \in Categories :
        (Fused(c) /\ VectorSeen(c) # <<>> /\ FtsSeen(c) # <<>>) =>
            /\ request.hybrid_weight = WDen
                  => FusedAsOf(c, WithoutText(db[c]))
            /\ request.hybrid_weight = 0
                  => FusedAsOf(c, WithoutVector(db[c]))

\* ------------------------------------------------------------ category tags
\* the tables the call opened
Opened == {calls[i].table : i \in CallsOf("open_table")}

\* the contents the searches of category c answered in the call
AnsweredBy(c) ==
    ContentsOf(VectorSeen(c))
        \cup (IF request.use_hybrid THEN ContentsOf(FtsSeen(c)) ELSE {})

\* C29: every hit query() returns is tagged with the name of the category
\* whose index answered it; with a category named, that category alone is
\* searched and every hit carries its name; with "all", every category of
\* the corpus is searched.
C29_TaggedByCategory ==
    pc = "returned" =>
        /\ \A p \in DOMAIN results :
              /\ results[p].category \in Opened \cap DOMAIN db
              /\ results[p].content \in AnsweredBy(results[p].category)
        /\ request.category # "all" =>
              /\ Opened = {request.category}
              /\ \A p \in DOMAIN results :
                    results[p].category = request.category
        /\ request.category = "all" => Opened = DOMAIN db

\* a call over all categories returned hits of two categories, each answered
\* by its own table only
C29_Witness ==
    /\ pc = "returned" /\ request.category = "all" /\ Len(results) = 2
    /\ results[1].category # results[2].category
    /\ results[1].content \notin AnsweredBy(results[2].category)
    /\ results[2].content \notin AnsweredBy(results[1].category)

====
